---- MODULE Spec2Model ----
(***************************************************************************)
(* Model of the AST-based SchemaTransformer of class-validator-to-open-api *)
(* (src/src/index.ts, second class, lines 451-970) with the constants of   *)
(* src/src/fixtures.ts.                                                    *)
(*                                                                         *)
(* A JavaScript value is a tagged record [t, v]; a key that is absent from *)
(* an object and a key holding undefined are both the value Undefined.     *)
(* Schema objects live in a heap (a sequence indexed by reference) because *)
(* the code stores the same object under several keys and writes through   *)
(* all of them.                                                            *)
(***************************************************************************)
EXTENDS Integers, Sequences, FiniteSets, TLC

VARIABLES
  program,      \* the class declarations of the source files
  classCache,   \* SchemaTransformer.classCache
  heap,         \* the schema objects made so far
  stack,        \* the activations of transformClass, the running one last
  calls,        \* history: the names transform() was called with
  last,         \* history: the last call of transform() and its outcome
  activations,  \* history: how many times transformClass started, per class
  firstStarted, \* history: the schema of the first activation, per class
  firstResult   \* history: that schema once its activation returned

vars == <<program, classCache, heap, stack, calls, last, activations, firstStarted, firstResult>>

---------------------------------------------------------------------------
(* Bounds *)

\* nested transformByName activations the call stack holds before the
\* engine raises RangeError
MaxStackDepth == 4
\* top-level transform() calls in one run
MaxCalls == 3
\* annotations on the probe field
MaxDecorators == 2

---------------------------------------------------------------------------
(* JavaScript values *)

Undefined == [t |-> "undefined", v |-> 0]
Str(s) == [t |-> "string", v |-> s]
Num(n) == [t |-> "number", v |-> n]
Bool(b) == [t |-> "boolean", v |-> b]
Ref(id) == [t |-> "ref", v |-> id]
Map(entries) == [t |-> "map", v |-> entries]
Arr(elems) == [t |-> "array", v |-> elems]

\* ToBoolean, as used by `if (format)` and `if (decorator.arguments[1])`
Truthy(x) ==
  CASE x.t = "undefined" -> FALSE
    [] x.t = "number" -> x.v # 0
    [] x.t = "string" -> x.v # ""
    [] x.t = "boolean" -> x.v
    [] OTHER -> TRUE

\* arguments[i] of a JavaScript array: undefined past the end
At(args, i) == IF i \in DOMAIN args THEN args[i] ELSE Undefined

---------------------------------------------------------------------------
(* Constants of fixtures.ts *)

jsPrimitives ==
  [String |-> [type |-> "String", value |-> Str("string"), format |-> Undefined],
   Number |-> [type |-> "Number", value |-> Str("number"), format |-> Undefined],
   Boolean |-> [type |-> "Boolean", value |-> Str("boolean"), format |-> Undefined],
   Object |-> [type |-> "Object", value |-> Str("object"), format |-> Undefined],
   Array |-> [type |-> "Array", value |-> Str("array"), format |-> Undefined],
   Date |-> [type |-> "Date", value |-> Str("date"), format |-> Undefined],
   Buffer |-> [type |-> "Buffer", value |-> Str("string"), format |-> Str("binary")],
   Uint8Array |-> [type |-> "Uint8Array", value |-> Str("string"), format |-> Str("binary")],
   UploadFile |-> [type |-> "UploadFile", value |-> Str("string"), format |-> Str("binary")]]

validatorDecorators ==
  [Length |-> [name |-> "length", type |-> Str("string"), format |-> Undefined],
   MinLength |-> [name |-> "minLength", type |-> Str("string"), format |-> Undefined],
   MaxLength |-> [name |-> "maxLength", type |-> Str("string"), format |-> Undefined],
   IsInt |-> [name |-> "isInt", type |-> Str("integer"), format |-> Str("int32")],
   IsNumber |-> [name |-> "isNumber", type |-> Str("number"), format |-> Str("double")],
   IsString |-> [name |-> "isString", type |-> Str("string"), format |-> Str("string")],
   IsPositive |-> [name |-> "isPositive", type |-> Str("number"), format |-> Undefined],
   IsDate |-> [name |-> "isDate", type |-> Str("date"), format |-> Str("date")],
   IsEmail |-> [name |-> "isEmail", type |-> Str("string"), format |-> Str("email")],
   IsNotEmpty |-> [name |-> "isNotEmpty", type |-> Undefined, format |-> Undefined],
   IsBoolean |-> [name |-> "isBoolean", type |-> Str("boolean"), format |-> Undefined],
   Min |-> [name |-> "min", type |-> Undefined, format |-> Undefined],
   Max |-> [name |-> "max", type |-> Undefined, format |-> Undefined],
   ArrayNotEmpty |-> [name |-> "arrayNotEmpty", type |-> Undefined, format |-> Undefined],
   ArrayMaxSize |-> [name |-> "arrayMaxSize", type |-> Undefined, format |-> Undefined],
   ArrayMinSize |-> [name |-> "arrayMinSize", type |-> Undefined, format |-> Undefined]]

\* The case label constants.validatorDecorators.IsArray.name of
\* applyDecorators: fixtures.ts has no IsArray entry, the label is spelled
\* the way the other entries are.
IsArrayName == "isArray"

---------------------------------------------------------------------------
(* Strings *)

\* String.prototype.toLowerCase on the type names of the model
ToLowerCase(s) ==
  CASE s = "String" -> "string"
    [] s = "Number" -> "number"
    [] s = "Boolean" -> "boolean"
    [] s = "Date" -> "date"
    [] s = "Buffer" -> "buffer"
    [] s = "Uint8Array" -> "uint8array"
    [] s = "UploadFile" -> "uploadfile"
    [] s = "ImageFile" -> "imagefile"
    [] s = "User" -> "user"
    [] s = "Role" -> "role"
    [] s = "Node" -> "node"
    [] s = "A" -> "a"
    [] s = "B" -> "b"
    [] s = "Draft" -> "draft"
    [] s = "DraftPlain" -> "draftplain"
    [] s = "Probe" -> "probe"
    [] s = "Missing" -> "missing"
    [] OTHER -> s

\* Number(text) on the numeric literal texts of the model
Number(text) ==
  CASE text = "0" -> 0
    [] text = "1" -> 1
    [] text = "2" -> 2
    [] text = "3" -> 3
    [] text = "18" -> 18
    [] text = "65" -> 65
    [] text = "100" -> 100

\* A declared type is the string `base` followed by `dims` copies of "[]":
\* endsWith("[]") is dims > 0 and slice(0, -2) takes one copy off.
Type(base, dims) == [base |-> base, dims |-> dims]

---------------------------------------------------------------------------
(* The analysed program: class declarations as the TypeScript AST gives them *)

\* argument nodes of a decorator call
NumericLiteral(text) == [kind |-> "NumericLiteral", text |-> text]
StringLiteral(text) == [kind |-> "StringLiteral", text |-> text]
TrueKeyword == [kind |-> "TrueKeyword", text |-> "true"]
FalseKeyword == [kind |-> "FalseKeyword", text |-> "false"]
\* any other expression, e.g. the prefix-minus expression -5
OtherExpression(text) == [kind |-> "Other", text |-> text]

\* modifiers of a property declaration
\* @name(args)
DecoratorCall(name, args) ==
  [isDecorator |-> TRUE, expression |-> "CallExpression", calleeIsIdentifier |-> TRUE,
   text |-> name, arguments |-> args]
\* @name
DecoratorIdentifier(name) ==
  [isDecorator |-> TRUE, expression |-> "Identifier", calleeIsIdentifier |-> FALSE,
   text |-> name, arguments |-> <<>>]
\* @ns.name(args): a call whose callee is no identifier
DecoratorQualifiedCall(name, args) ==
  [isDecorator |-> TRUE, expression |-> "CallExpression", calleeIsIdentifier |-> FALSE,
   text |-> name, arguments |-> args]
\* public, readonly, ...
KeywordModifier(name) ==
  [isDecorator |-> FALSE, expression |-> "Keyword", calleeIsIdentifier |-> FALSE,
   text |-> name, arguments |-> <<>>]

\* a member of a class: a property declaration with an identifier name, or
\* anything else (a method, a constructor)
Member(name, type, modifiers) ==
  [isProperty |-> TRUE, name |-> name, type |-> type, modifiers |-> modifiers]
Method(name) ==
  [isProperty |-> FALSE, name |-> name, type |-> Type("void", 0), modifiers |-> <<>>]

ClassDeclaration(name, members) == [name |-> name, members |-> members]

---------------------------------------------------------------------------
(* Extraction: extractProperties, extractDecorators *)

getDecoratorName(modifier) ==
  IF modifier.calleeIsIdentifier THEN modifier.text ELSE "unknown"

getDecoratorArgument(arg) ==
  CASE arg.kind = "NumericLiteral" -> Num(Number(arg.text))
    [] arg.kind = "StringLiteral" -> Str(arg.text)
    [] arg.kind = "TrueKeyword" -> Bool(TRUE)
    [] arg.kind = "FalseKeyword" -> Bool(FALSE)
    [] OTHER -> Str(arg.text)

getDecoratorArguments(modifier) ==
  [i \in DOMAIN modifier.arguments |-> getDecoratorArgument(modifier.arguments[i])]

RECURSIVE extractDecorators(_)
extractDecorators(modifiers) ==
  IF modifiers = <<>> THEN <<>>
  ELSE LET m == Head(modifiers)
           rest == extractDecorators(Tail(modifiers))
       IN  IF m.isDecorator /\ m.expression = "CallExpression"
           THEN <<[name |-> getDecoratorName(m), arguments |-> getDecoratorArguments(m)]>> \o rest
           ELSE IF m.isDecorator /\ m.expression = "Identifier"
           THEN <<[name |-> m.text, arguments |-> <<>>]>> \o rest
           ELSE rest

RECURSIVE extractProperties(_)
extractProperties(members) ==
  IF members = <<>> THEN <<>>
  ELSE LET m == Head(members)
           rest == extractProperties(Tail(members))
       IN  IF m.isProperty
           THEN <<[name |-> m.name, type |-> m.type,
                   decorators |-> extractDecorators(m.modifiers)]>> \o rest
           ELSE rest

\* findClassByName over the source files of the program: the set of
\* declarations with that name (class names are unique in a program)
findClassByName(prog, className) ==
  {i \in DOMAIN prog : prog[i].name = className}

---------------------------------------------------------------------------
(* Schema objects *)

\* an object with none of the keys the transformer writes
EmptyObject ==
  [type |-> Undefined, format |-> Undefined,
   minimum |-> Undefined, maximum |-> Undefined,
   minLength |-> Undefined, maxLength |-> Undefined,
   minItems |-> Undefined, maxItems |-> Undefined,
   items |-> Undefined, properties |-> Undefined, required |-> Undefined]

\* { type: "object", properties: {}, required: [] } of generateSchema
NewSchema ==
  [EmptyObject EXCEPT !.type = Str("object"), !.properties = Map(<<>>),
                      !.required = Arr(<<>>)]

\* obj[key] of a properties map (its entries in insertion order)
HasKey(entries, key) == \E k \in DOMAIN entries : entries[k].key = key
Get(entries, key) == entries[CHOOSE k \in DOMAIN entries : entries[k].key = key].value
\* a faulty insertion: a new key goes first
PutFront(entries, key, value) ==
  IF HasKey(entries, key)
  THEN [k \in DOMAIN entries |->
          IF entries[k].key = key THEN [key |-> key, value |-> value] ELSE entries[k]]
  ELSE <<[key |-> key, value |-> value]>> \o entries

\* obj[key] = value: a new key goes last, an old key keeps its place
Put(entries, key, value) ==
  IF HasKey(entries, key)
  THEN [k \in DOMAIN entries |->
          IF entries[k].key = key THEN [key |-> key, value |-> value] ELSE entries[k]]
  ELSE Append(entries, [key |-> key, value |-> value])

\* Array.prototype.includes
Includes(elems, x) == \E k \in DOMAIN elems : elems[k] = x

\* the reference held by schema.properties[propertyName]
Property(h, schema, propertyName) == Get(h[schema].properties.v, propertyName)

---------------------------------------------------------------------------
(* mapTypeToSchema *)

PrimitiveCases == {
  ToLowerCase(jsPrimitives.String.type), ToLowerCase(jsPrimitives.Number.type),
  ToLowerCase(jsPrimitives.Boolean.type), ToLowerCase(jsPrimitives.Date.type),
  ToLowerCase(jsPrimitives.Buffer.type), ToLowerCase(jsPrimitives.Uint8Array.type) }

\* does the switch on type.toLowerCase() take a case other than default
IsPrimitive(base) == ToLowerCase(base) \in PrimitiveCases

TypeResult(type, format, nestedSchema) ==
  [type |-> type, format |-> format, nestedSchema |-> nestedSchema]

\* the primitive cases of the switch
MapPrimitive(base) ==
  LET l == ToLowerCase(base) IN
  CASE l = ToLowerCase(jsPrimitives.String.type) ->
         TypeResult(jsPrimitives.String.value, Undefined, Undefined)
    [] l = ToLowerCase(jsPrimitives.Number.type) ->
         TypeResult(jsPrimitives.Number.value, Undefined, Undefined)
    [] l = ToLowerCase(jsPrimitives.Boolean.type) ->
         TypeResult(jsPrimitives.Boolean.value, Undefined, Undefined)
    [] l = ToLowerCase(jsPrimitives.Date.type) ->
         TypeResult(jsPrimitives.Date.value, jsPrimitives.Date.format, Undefined)
    [] l = ToLowerCase(jsPrimitives.Buffer.type) ->
         TypeResult(jsPrimitives.Buffer.value, jsPrimitives.Buffer.format, Undefined)
    [] l = ToLowerCase(jsPrimitives.Uint8Array.type) ->
         TypeResult(jsPrimitives.Buffer.value, jsPrimitives.Buffer.format, Undefined)

\* a faulty default case: the schema transformByName returned is dropped
MapNestedBare(schema) == TypeResult(jsPrimitives.Object.value, Undefined, Undefined)

\* default case, transformByName returned nestedResult
MapNested(schema) == TypeResult(jsPrimitives.Object.value, Undefined, Ref(schema))

\* a faulty catch: another type for the class that was not found
MapUnresolvedAny == TypeResult(Str("any"), Undefined, Undefined)

\* default case, transformByName threw and the catch answered
MapUnresolved == TypeResult(jsPrimitives.Object.value, Undefined, Undefined)

\* the array branch, given the result for the element type: a pair of the
\* result and the heap with the objects it allocated
MapArray(h, elementSchema) ==
  LET fresh == elementSchema.nestedSchema.t # "ref"
      h1 == IF fresh THEN Append(h, [EmptyObject EXCEPT !.type = elementSchema.type]) ELSE h
      items == IF fresh THEN Len(h1) ELSE elementSchema.nestedSchema.v
      h2 == IF Truthy(elementSchema.format)
            THEN [h1 EXCEPT ![items].format = elementSchema.format] ELSE h1
      h3 == Append(h2, [EmptyObject EXCEPT !.type = Str("array"), !.items = Ref(items),
                                           !.properties = Map(<<>>), !.required = Arr(<<>>)])
  IN  [result |-> TypeResult(Str("array"), Undefined, Ref(Len(h3))), heap |-> h3]

\* mapTypeToSchema of base followed by dims copies of "[]", given the result
\* for base
RECURSIVE MapType(_, _, _)
MapType(h, leaf, dims) ==
  IF dims = 0 THEN [result |-> leaf, heap |-> h]
  ELSE LET element == MapType(h, leaf, dims - 1)
       IN  MapArray(element.heap, element.result)

\* a faulty assignment: the new property object gets an empty properties map
AssignPropertyHalf(h, schema, name, r) ==
  IF r.nestedSchema.t = "ref"
  THEN [h EXCEPT ![schema].properties =
          Map(Put(h[schema].properties.v, name, r.nestedSchema.v))]
  ELSE LET o == [EmptyObject EXCEPT !.type = r.type,
                                    !.format = IF Truthy(r.format) THEN r.format ELSE Undefined,
                                    !.properties = Map(<< >>)]
           h1 == Append(h, o)
       IN  [h1 EXCEPT ![schema].properties =
              Map(Put(h[schema].properties.v, name, Len(h1)))]

\* generateSchema, lines 763-768: schema.properties[name] = ...
AssignProperty(h, schema, name, r) ==
  IF r.nestedSchema.t = "ref"
  THEN [h EXCEPT ![schema].properties =
          Map(Put(h[schema].properties.v, name, r.nestedSchema.v))]
  ELSE LET o == [EmptyObject EXCEPT !.type = r.type,
                                    !.format = IF Truthy(r.format) THEN r.format ELSE Undefined]
           h1 == Append(h, o)
       IN  [h1 EXCEPT ![schema].properties =
              Map(Put(h[schema].properties.v, name, Len(h1)))]

---------------------------------------------------------------------------
(* applyDecorators: one iteration of the loop over decorators *)

\* a faulty assignment: nothing is written
WriteNothing(h, object, key, value) == h

\* a faulty assignment: the object is replaced by one that has the key only
WriteReplace(h, object, key, value) ==
  [h EXCEPT ![object] = [EmptyObject EXCEPT ![key] = value]]

\* object[key] = value on the object a reference names
Write(h, object, key, value) == [h EXCEPT ![object][key] = value]

\* a faulty IsNotEmpty case: the name is pushed without looking
PushRequiredAlways(h, schema, propertyName) ==
  [h EXCEPT ![schema].required = Arr(Append(h[schema].required.v, propertyName))]

\* a faulty IsNotEmpty case: nothing is pushed
PushRequiredNever(h, schema, propertyName) == h

\* schema.required.push(propertyName) unless it is already included
PushRequired(h, schema, propertyName) ==
  IF Includes(h[schema].required.v, propertyName) THEN h
  ELSE [h EXCEPT ![schema].required = Arr(Append(h[schema].required.v, propertyName))]

\* faulty type-bearing cases: always on the property, never on its items
WriteTypeFormatOnField(h, prop, isArrayType, type, format) ==
  LET h1 == IF type.t = "undefined" THEN h ELSE Write(h, prop, "type", type)
  IN  IF format.t = "undefined" THEN h1 ELSE Write(h1, prop, "format", format)

\* the type-bearing cases: on the property when it is no array, on its items
\* when it is an array that has items
WriteTypeFormat(h, prop, isArrayType, type, format) ==
  LET target == IF ~isArrayType THEN prop
                ELSE IF h[prop].items.t = "ref" THEN h[prop].items.v ELSE 0
      h1 == IF type.t = "undefined" THEN h ELSE Write(h, target, "type", type)
  IN  IF target = 0 THEN h
      ELSE IF format.t = "undefined" THEN h1 ELSE Write(h1, target, "format", format)

\* a faulty switch: every annotation, known or not, marks the field required
ApplyDecoratorMarking(h, schema, propertyName, isArrayType, decorator) ==
  PushRequired(h, schema, propertyName)

ApplyDecorator(h, schema, propertyName, isArrayType, decorator) ==
  LET prop == Property(h, schema, propertyName)
      name == decorator.name
      arg0 == At(decorator.arguments, 1)
      arg1 == At(decorator.arguments, 2)
      vd == validatorDecorators
  IN
  CASE name = vd.IsString.name ->
         WriteTypeFormat(h, prop, isArrayType, vd.IsString.type, Undefined)
    [] name = vd.IsInt.name ->
         WriteTypeFormat(h, prop, isArrayType, vd.IsInt.type, vd.IsInt.format)
    [] name = vd.IsNumber.name ->
         WriteTypeFormat(h, prop, isArrayType, vd.IsNumber.type, Undefined)
    [] name = vd.IsBoolean.name ->
         WriteTypeFormat(h, prop, isArrayType, vd.IsBoolean.type, Undefined)
    [] name = vd.IsEmail.name ->
         WriteTypeFormat(h, prop, isArrayType, Undefined, vd.IsEmail.format)
    [] name = vd.IsDate.name ->
         WriteTypeFormat(h, prop, isArrayType, vd.IsDate.type, vd.IsDate.format)
    [] name = vd.IsNotEmpty.name -> PushRequired(h, schema, propertyName)
    [] name = vd.MinLength.name -> Write(h, prop, "minLength", arg0)
    [] name = vd.MaxLength.name -> Write(h, prop, "maxLength", arg0)
    [] name = vd.Length.name ->
         IF Truthy(arg1)
         THEN Write(Write(h, prop, "minLength", arg0), prop, "maxLength", arg1)
         ELSE Write(h, prop, "minLength", arg0)
    [] name = vd.Min.name -> Write(h, prop, "minimum", arg0)
    [] name = vd.Max.name -> Write(h, prop, "maximum", arg0)
    [] name = vd.IsPositive.name -> Write(h, prop, "minimum", Num(0))
    [] name = IsArrayName -> Write(h, prop, "type", jsPrimitives.Array.value)
    [] name = vd.ArrayNotEmpty.name ->
         PushRequired(Write(h, prop, "minItems", Num(1)), schema, propertyName)
    [] name = vd.ArrayMinSize.name -> Write(h, prop, "minItems", arg0)
    [] name = vd.ArrayMaxSize.name -> Write(h, prop, "maxItems", arg0)
    [] OTHER -> h

\* const isArrayType = schema.properties[propertyName].type === "array"
IsArrayType(h, schema, propertyName) ==
  h[Property(h, schema, propertyName)].type = jsPrimitives.Array.value

---------------------------------------------------------------------------
(* Programs *)

TString == Type("string", 0)
TNumber == Type("number", 0)

\* the README's User (decorator identifiers spelled as fixtures.ts spells
\* the names applyDecorators compares them with)
UserClass ==
  ClassDeclaration("User", <<
    Member("name", TString, <<DecoratorCall("isString", <<>>), DecoratorCall("isNotEmpty", <<>>)>>),
    Member("email", TString, <<DecoratorCall("isEmail", <<>>)>>),
    Member("age", TNumber, <<DecoratorCall("isInt", <<>>),
                             DecoratorCall("min", <<NumericLiteral("18")>>),
                             DecoratorCall("max", <<NumericLiteral("100")>>)>>) >>)

RoleClass ==
  ClassDeclaration("Role", <<
    Member("id", TNumber, <<DecoratorCall("isInt", <<>>), DecoratorCall("isNotEmpty", <<>>)>>),
    Member("name", TString, <<DecoratorCall("isString", <<>>),
                              DecoratorCall("maxLength", <<NumericLiteral("65")>>)>>) >>)

\* a class that refers to itself
NodeClass ==
  ClassDeclaration("Node", <<
    Member("value", TString, <<>>),
    Member("next", Type("Node", 0), <<>>) >>)

\* two classes that refer to each other
AClass == ClassDeclaration("A", <<Member("b", Type("B", 0), <<>>)>>)
BClass == ClassDeclaration("B", <<Member("a", Type("A", 0), <<>>)>>)

\* a class with a field of a type no source file declares, and the same
\* class without that field
DraftClass ==
  ClassDeclaration("Draft", <<
    Member("attachment", Type("Missing", 0), <<>>),
    Member("title", TString, <<DecoratorCall("isString", <<>>), DecoratorCall("isNotEmpty", <<>>),
                               DecoratorCall("minLength", <<NumericLiteral("2")>>)>>),
    Method("publish"),
    Member("owner", Type("Role", 0), <<KeywordModifier("public")>>) >>)
DraftPlainClass ==
  ClassDeclaration("DraftPlain", <<
    Member("title", TString, <<DecoratorCall("isString", <<>>), DecoratorCall("isNotEmpty", <<>>),
                               DecoratorCall("minLength", <<NumericLiteral("2")>>)>>),
    Method("publish"),
    Member("owner", Type("Role", 0), <<KeywordModifier("public")>>) >>)

\* the class under test: field p with a declared type and annotations, and
\* field q of the same type with the same annotations in the opposite order
Reverse(seq) == [k \in DOMAIN seq |-> seq[Len(seq) + 1 - k]]
ProbeClass(type, modifiers) ==
  ClassDeclaration("Probe", <<Member("p", type, modifiers), Member("q", type, Reverse(modifiers))>>)

\* the README's custom file type: class UploadFile {}
UploadFileClass == ClassDeclaration("UploadFile", << >>)
\* two fields of one nested class, the second one annotated
PairClass ==
  ClassDeclaration("Pair", <<
    Member("first", Type("Role", 0), <<>>),
    Member("second", Type("Role", 0), <<DecoratorCall("min", <<NumericLiteral("2")>>)>>) >>)

Library ==
  <<UserClass, RoleClass, NodeClass, AClass, BClass, DraftClass, DraftPlainClass, UploadFileClass,
    PairClass>>

\* names transform() is called with: the declared classes and one that no
\* source file declares
CallNames == {"User", "Role", "Node", "A", "B", "Draft", "DraftPlain", "Pair", "Probe", "Missing"}

\* declared types of the probe field
ProbeTypes ==
  { Type(b, 0) : b \in {"string", "number", "boolean", "Date", "Buffer", "Uint8Array",
                        "UploadFile", "ImageFile", "Role", "Missing", "Probe"} }
  \cup { Type(b, 1) : b \in {"string", "Buffer", "Role", "Missing", "any"} }
  \cup { Type("string", 2) }

ArgTexts == {"0", "2"}

\* every annotation kind of applyDecorators, and one it does not know
AllDecorators ==
  { DecoratorCall(n, <<>>) :
      n \in {"isString", "isInt", "isNumber", "isBoolean", "isEmail", "isDate", "isNotEmpty",
             "isPositive", "isArray", "arrayNotEmpty", "isOptional"} }
  \cup { DecoratorCall(n, <<NumericLiteral(a)>>) :
      n \in {"minLength", "maxLength", "min", "max", "arrayMinSize", "arrayMaxSize", "length"},
      a \in ArgTexts }
  \cup { DecoratorCall("length", <<NumericLiteral("2"), NumericLiteral(a)>>) : a \in {"0", "3"} }
  \cup { DecoratorIdentifier("isNotEmpty"), DecoratorQualifiedCall("isString", <<>>),
         DecoratorCall("min", <<OtherExpression("-5")>>) }

\* the annotations combined with each other
CoreDecorators ==
  { DecoratorCall(n, <<>>) :
      n \in {"isString", "isInt", "isEmail", "isNotEmpty", "isArray", "arrayNotEmpty",
             "isOptional"} }
  \cup { DecoratorCall("min", <<NumericLiteral("2")>>), DecoratorCall("max", <<NumericLiteral("3")>>),
         DecoratorCall("minLength", <<NumericLiteral("2")>>),
         DecoratorCall("maxLength", <<NumericLiteral("3")>>) }

SeqsUpTo(S, n) == UNION { [1..k -> S] : k \in 0..n }

ProbeModifiers == SeqsUpTo(AllDecorators, 1) \cup SeqsUpTo(CoreDecorators, MaxDecorators)

---------------------------------------------------------------------------
(* State *)

\* the last call of transform(): its argument, how it ended, what it returned
NoCall == [name |-> "", outcome |-> "none", result |-> [cached |-> FALSE, name |-> "", schema |-> 0]]

Frame(className, schema, properties) ==
  [className |-> className, schema |-> schema, properties |-> properties,
   i |-> 1, pc |-> "property", d |-> 1, isArrayType |-> FALSE]

\* every string transformByName is called with: the names transform() is
\* called with and the type names that reach the default case
ClassNames == CallNames \cup {"UploadFile", "ImageFile", "any"}

\* classCache.get(className) when the map has no such key
NoEntry == [cached |-> FALSE, name |-> "", schema |-> 0]
\* the { name, schema } object transformClass returns: one per schema object,
\* so the schema reference identifies it
Result(name, schema) == [cached |-> TRUE, name |-> name, schema |-> schema]

InitState ==
  /\ classCache = [c \in ClassNames |-> NoEntry]
  /\ heap = << >>
  /\ stack = << >>
  /\ calls = << >>
  /\ last = NoCall
  /\ activations = [c \in ClassNames |-> 0]
  /\ firstStarted = [c \in ClassNames |-> 0]
  /\ firstResult = [c \in ClassNames |-> 0]

\* a run over the library, the probe being an array of strings marked isEmail
Init ==
  /\ program = Library \o <<ProbeClass(Type("string", 1), <<DecoratorCall("isEmail", <<>>)>>)>>
  /\ InitState

\* a run over the library and any probe
InitProbe ==
  /\ program \in { Library \o <<ProbeClass(t, m)>> : t \in ProbeTypes, m \in ProbeModifiers }
  /\ InitState

Top == stack[Len(stack)]
SetTop(f) == [stack EXCEPT ![Len(stack)] = f]
Declaration(className) == program[CHOOSE i \in findClassByName(program, className) : TRUE]

---------------------------------------------------------------------------
(* transform(cls) -> transformByName(cls.name), called by the user *)

\* lines 523-525: the cache has the name
TransformCached(c) ==
  /\ stack = << >>
  /\ Len(calls) < MaxCalls
  /\ classCache[c].cached
  /\ calls' = Append(calls, c)
  /\ last' = [name |-> c, outcome |-> "returned", result |-> classCache[c]]
  /\ UNCHANGED <<program, classCache, heap, stack, activations, firstStarted, firstResult>>

\* line 540: no source file declares the class
\* a faulty transformByName: a class that is not found is cached as empty
TransformNotFoundCaching(c) ==
  /\ stack = << >>
  /\ Len(calls) < MaxCalls
  /\ ~classCache[c].cached
  /\ findClassByName(program, c) = {}
  /\ calls' = Append(calls, c)
  /\ heap' = Append(heap, NewSchema)
  /\ classCache' = [classCache EXCEPT ![c] = Result(c, Len(heap) + 1)]
  /\ last' = [name |-> c, outcome |-> "threw", result |-> NoEntry]
  /\ UNCHANGED <<program, stack, activations, firstStarted, firstResult>>

TransformNotFound(c) ==
  /\ stack = << >>
  /\ Len(calls) < MaxCalls
  /\ ~classCache[c].cached
  /\ findClassByName(program, c) = {}
  /\ calls' = Append(calls, c)
  /\ last' = [name |-> c, outcome |-> "threw", result |-> NoEntry]
  /\ UNCHANGED <<program, classCache, heap, stack, activations, firstStarted, firstResult>>

\* transformClass: extractProperties, then generateSchema makes the schema
\* object and starts its loop
EnterClass(c) ==
  /\ heap' = Append(heap, NewSchema)
  /\ activations' = [activations EXCEPT ![c] = @ + 1]
  /\ firstStarted' = IF firstStarted[c] = 0
                     THEN [firstStarted EXCEPT ![c] = Len(heap) + 1] ELSE firstStarted

\* lines 531-534: the class is found, transformClass starts
TransformClass(c) ==
  /\ stack = << >>
  /\ Len(calls) < MaxCalls
  /\ ~classCache[c].cached
  /\ findClassByName(program, c) # {}
  /\ calls' = Append(calls, c)
  /\ last' = [name |-> c, outcome |-> "running", result |-> NoEntry]
  /\ EnterClass(c)
  /\ stack' = <<Frame(Declaration(c).name, Len(heap) + 1,
                      extractProperties(Declaration(c).members))>>
  /\ UNCHANGED <<program, classCache, firstResult>>

---------------------------------------------------------------------------
(* generateSchema: the loop over properties *)

AtProperty ==
  /\ stack # << >>
  /\ Top.pc = "property"
  /\ Top.i <= Len(Top.properties)

CurrentProperty == Top.properties[Top.i]

\* the default case calls transformByName, which starts transformClass: the
\* type is no primitive, the cache does not have it, a source file declares it
\* and the call stack has room
NeedsClass(base) ==
  /\ ~IsPrimitive(base)
  /\ ~classCache[base].cached
  /\ findClassByName(program, base) # {}
  /\ Len(stack) < MaxStackDepth

\* mapTypeToSchema of a type name without "[]" that starts no transformClass:
\* a primitive case, or the default case with a cache hit, or with an error
\* caught (class not found; RangeError when the call stack is full)
MapLeaf(base) ==
  IF IsPrimitive(base) THEN MapPrimitive(base)
  ELSE IF classCache[base].cached THEN MapNested(classCache[base].schema)
  ELSE MapUnresolved

\* lines 759-768 and 856-858 for the current property, given the result for
\* its type name without "[]"
Assigned(f, leaf) ==
  LET p == f.properties[f.i]
      m == MapType(heap, leaf, p.type.dims)
      h == AssignProperty(m.heap, f.schema, p.name, m.result)
  IN  [heap |-> h,
       frame |-> [f EXCEPT !.pc = "decorators", !.d = 1,
                           !.isArrayType = IsArrayType(h, f.schema, p.name)]]

\* a faulty default case without the catch: the error of a class that is
\* not found reaches the caller of transform()
ResolvePropertyUncaught ==
  /\ AtProperty
  /\ ~NeedsClass(CurrentProperty.type.base)
  /\ LET base == CurrentProperty.type.base
         a == Assigned(Top, MapLeaf(base))
         found == IsPrimitive(base) \/ classCache[base].cached
     IN  /\ heap' = IF found THEN a.heap ELSE heap
         /\ stack' = IF found THEN SetTop(a.frame) ELSE << >>
         /\ last' = IF found THEN last ELSE [last EXCEPT !.outcome = "threw"]
  /\ UNCHANGED <<program, classCache, calls, activations, firstStarted, firstResult>>

\* mapTypeToSchema returns without entering a class
ResolveProperty ==
  /\ AtProperty
  /\ ~NeedsClass(CurrentProperty.type.base)
  /\ LET a == Assigned(Top, MapLeaf(CurrentProperty.type.base))
     IN  /\ heap' = a.heap
         /\ stack' = SetTop(a.frame)
  /\ UNCHANGED <<program, classCache, calls, last, activations, firstStarted, firstResult>>

\* mapTypeToSchema -> transformByName -> transformClass of the property's class
ResolveNested ==
  /\ AtProperty
  /\ NeedsClass(CurrentProperty.type.base)
  /\ LET c == CurrentProperty.type.base
     IN  /\ EnterClass(c)
         /\ stack' = Append(SetTop([Top EXCEPT !.pc = "nested"]),
                            Frame(Declaration(c).name, Len(heap) + 1,
                                  extractProperties(Declaration(c).members)))
  /\ UNCHANGED <<program, classCache, calls, last, firstResult>>

\* a faulty loop: it takes the annotations last to first
ApplyDecoratorReversed ==
  /\ stack # << >>
  /\ Top.pc = "decorators"
  /\ Top.d <= Len(Top.properties[Top.i].decorators)
  /\ heap' = ApplyDecorator(heap, Top.schema, Top.properties[Top.i].name, Top.isArrayType,
                            Top.properties[Top.i].decorators[
                              Len(Top.properties[Top.i].decorators) + 1 - Top.d])
  /\ stack' = SetTop([Top EXCEPT !.d = @ + 1])
  /\ UNCHANGED <<program, classCache, calls, last, activations, firstStarted, firstResult>>

\* a faulty loop: it ends after its first iteration
ApplyDecoratorOnce ==
  /\ stack # << >>
  /\ Top.pc = "decorators"
  /\ Top.d <= Len(Top.properties[Top.i].decorators)
  /\ heap' = ApplyDecorator(heap, Top.schema, Top.properties[Top.i].name, Top.isArrayType,
                            Top.properties[Top.i].decorators[Top.d])
  /\ stack' = SetTop([Top EXCEPT !.d = Len(Top.properties[Top.i].decorators) + 1])
  /\ UNCHANGED <<program, classCache, calls, last, activations, firstStarted, firstResult>>

\* one iteration of the loop of applyDecorators
ApplyDecoratorStep ==
  /\ stack # << >>
  /\ Top.pc = "decorators"
  /\ Top.d <= Len(Top.properties[Top.i].decorators)
  /\ heap' = ApplyDecorator(heap, Top.schema, Top.properties[Top.i].name, Top.isArrayType,
                            Top.properties[Top.i].decorators[Top.d])
  /\ stack' = SetTop([Top EXCEPT !.d = @ + 1])
  /\ UNCHANGED <<program, classCache, calls, last, activations, firstStarted, firstResult>>

\* applyDecorators returns, the loop of generateSchema goes on
\* a faulty loop: it does not move on to the next property
NextPropertyStuck ==
  /\ stack # << >>
  /\ Top.pc = "decorators"
  /\ Top.d > Len(Top.properties[Top.i].decorators)
  /\ UNCHANGED vars

NextProperty ==
  /\ stack # << >>
  /\ Top.pc = "decorators"
  /\ Top.d > Len(Top.properties[Top.i].decorators)
  /\ stack' = SetTop([Top EXCEPT !.pc = "property", !.i = @ + 1])
  /\ UNCHANGED <<program, classCache, heap, calls, last, activations, firstStarted, firstResult>>

Finished ==
  /\ stack # << >>
  /\ Top.pc = "property"
  /\ Top.i > Len(Top.properties)

\* history: the first activation of the class returns
NoteResult(className, schema) ==
  firstResult' = IF firstStarted[className] = schema
                 THEN [firstResult EXCEPT ![className] = schema] ELSE firstResult

\* a faulty transformByName: the result is not stored
CacheSetNone(cache, className, schema) == cache

\* a faulty cache: it keeps the latest entry only
CacheSetOnly(cache, className, schema) ==
  [c \in DOMAIN cache |-> IF c = className THEN Result(className, schema) ELSE NoEntry]

\* this.classCache.set(className, result), lines 534-536
CacheSet(cache, className, schema) ==
  [cache EXCEPT ![className] = Result(className, schema)]

\* transformClass returns to transformByName, which returns to mapTypeToSchema
ReturnNested ==
  /\ Finished
  /\ Len(stack) > 1
  /\ classCache' = CacheSet(classCache, Top.className, Top.schema)
  /\ LET caller == stack[Len(stack) - 1]
         a == Assigned(caller, MapNested(Top.schema))
     IN  /\ heap' = a.heap
         /\ stack' = [SubSeq(stack, 1, Len(stack) - 1) EXCEPT ![Len(stack) - 1] = a.frame]
  /\ NoteResult(Top.className, Top.schema)
  /\ UNCHANGED <<program, calls, last, activations, firstStarted>>

\* transformClass returns to transformByName, which returns to the user
ReturnTop ==
  /\ Finished
  /\ Len(stack) = 1
  /\ classCache' = CacheSet(classCache, Top.className, Top.schema)
  /\ last' = [last EXCEPT !.outcome = "returned", !.result = Result(Top.className, Top.schema)]
  /\ NoteResult(Top.className, Top.schema)
  /\ stack' = << >>
  /\ UNCHANGED <<program, heap, calls, activations, firstStarted>>

Step ==
  \/ ResolveProperty
  \/ ResolveNested
  \/ ApplyDecoratorStep
  \/ NextProperty
  \/ ReturnNested
  \/ ReturnTop

Next ==
  \/ \E c \in CallNames : TransformCached(c)
  \/ \E c \in CallNames : TransformNotFound(c)
  \/ \E c \in CallNames : TransformClass(c)
  \/ Step

Spec == Init /\ [][Next]_vars

\* synchronous code: a call that has started keeps running its next statement
SpecFair == Spec /\ WF_vars(Step)

\* runs that transform the probe class only
NextProbe ==
  \/ \E c \in {"Probe"} : TransformCached(c)
  \/ \E c \in {"Probe"} : TransformClass(c)
  \/ Step

SpecProbe == InitProbe /\ [][NextProbe]_vars

---------------------------------------------------------------------------
(* Reading results *)

\* the JSON document a schema object stands for: references followed
RECURSIVE Value(_, _)
Value(h, id) ==
  LET o == h[id] IN
  [o EXCEPT
     !.items = IF o.items.t = "ref" THEN [t |-> "schema", v |-> Value(h, o.items.v)]
               ELSE Undefined,
     !.properties =
        IF o.properties.t = "map"
        THEN Map([k \in DOMAIN o.properties.v |->
                    [key |-> o.properties.v[k].key,
                     value |-> Value(h, o.properties.v[k].value)]])
        ELSE Undefined]

\* a property schema with a type and nothing else, or with a format too
OfType(type) == [EmptyObject EXCEPT !.type = Str(type)]
OfTypeFormat(type, format) == [EmptyObject EXCEPT !.type = Str(type), !.format = Str(format)]

\* transform(name) has returned and was the last call
Returned(name) == last.name = name /\ last.outcome = "returned"

\* the document of the last call's result
LastSchema == Value(heap, last.result.schema)

\* the set of elements of a sequence
Range(seq) == { seq[k] : k \in DOMAIN seq }

---------------------------------------------------------------------------
(* End to end *)

UserSchema ==
  [EmptyObject EXCEPT
     !.type = Str("object"),
     !.properties = Map(<<
        [key |-> "name", value |-> OfType("string")],
        [key |-> "email", value |-> OfTypeFormat("string", "email")],
        [key |-> "age", value |-> [OfTypeFormat("integer", "int32") EXCEPT
                                     !.minimum = Num(18), !.maximum = Num(100)]] >>),
     !.required = Arr(<<"name">>)]

---------------------------------------------------------------------------
(* The cache *)

\* C2: once transform(M) has returned for a declared class M, every later
\* transform(M) returns the same object as the first one did, and the step
\* that serves it starts no transformClass and allocates nothing.
C2_Idempotence ==
  [][ /\ \A M \in ClassNames : firstResult[M] # 0 => firstResult'[M] = firstResult[M]
      /\ last'.outcome = "returned" =>
           last'.result = Result(last'.name, firstResult'[last'.name])
      /\ \A M \in CallNames :
           ( /\ calls' = Append(calls, M)
             /\ M \in Range(calls)
             /\ findClassByName(program, M) # {} ) =>
           /\ last' = [name |-> M, outcome |-> "returned", result |-> Result(M, firstResult[M])]
           /\ activations' = activations
           /\ heap' = heap
           /\ stack' = << >> ]_vars

C2_Witness ==
  /\ calls = <<"Draft", "Role", "Role">>
  /\ Returned("Role")
  /\ activations["Role"] = 1
  /\ last.result = Result("Role", firstResult["Role"])

\* C3: transform of a class that refers to itself, or of one of two classes
\* that refer to each other, does not raise, and the activations of
\* transformClass nested in each other are never more than the classes of the
\* cycle: one for Node, two for A and B.
C3_CycleSafety ==
  /\ last.name \in {"Node", "A", "B"} => last.outcome # "threw"
  /\ last.name = "Node" => Len(stack) <= 1
  /\ last.name \in {"A", "B"} => Len(stack) <= 2

---------------------------------------------------------------------------
(* Classes that are not found *)

\* C4: a call of transform() ends with an error exactly when no source file
\* declares the class it names: that call returns no schema, and no call
\* naming a declared class ends with an error, whatever its fields refer to.
C4_OnlyTopLevelMissingRaises ==
  /\ last.outcome = "threw" =>
       findClassByName(program, last.name) = {} /\ ~last.result.cached
  /\ (last.outcome \in {"running", "returned"}) => findClassByName(program, last.name) # {}
  /\ (last.outcome # "none" /\ findClassByName(program, last.name) = {}) =>
       last.outcome = "threw"

C4_Witness ==
  /\ calls = <<"Draft", "Missing">>
  /\ last = [name |-> "Missing", outcome |-> "threw", result |-> NoEntry]
  /\ classCache["Draft"].cached

\* the property schemas of a cached class, by field name
CachedProperty(className, key) ==
  Value(heap, Property(heap, classCache[className].schema, key))

\* C5: in Draft the field attachment, whose type no source file declares,
\* gets exactly {type: object}; transform(Draft) returns; and the fields
\* title and owner get the property schemas they get in DraftPlain, which is
\* Draft without attachment, the required list being the same too.
C5_MissingNestedReference ==
  /\ last.name = "Draft" => last.outcome \in {"running", "returned"}
  /\ (classCache["Draft"].cached /\ stack = << >>) =>
       /\ CachedProperty("Draft", "attachment") = OfType("object")
       /\ [k \in DOMAIN heap[classCache["Draft"].schema].properties.v |->
             heap[classCache["Draft"].schema].properties.v[k].key]
            = <<"attachment", "title", "owner">>
  /\ (classCache["Draft"].cached /\ classCache["DraftPlain"].cached /\ stack = << >>) =>
       /\ \A key \in {"title", "owner"} :
            CachedProperty("Draft", key) = CachedProperty("DraftPlain", key)
       /\ heap[classCache["Draft"].schema].required
            = heap[classCache["DraftPlain"].schema].required

C5_Witness ==
  /\ calls = <<"DraftPlain", "Draft">>
  /\ Returned("Draft")
  /\ CachedProperty("Draft", "attachment") = OfType("object")
  /\ CachedProperty("Draft", "title") = [OfType("string") EXCEPT !.minLength = Num(2)]
  /\ heap[classCache["Draft"].schema].required = Arr(<<"title">>)

---------------------------------------------------------------------------
(* The declared type of a field *)

\* the declaration of the class under test and the type of its field p
Probe == program[Len(program)]
ProbeType == Probe.members[1].type

\* the outermost activation has resolved the type of field p and has applied
\* no annotation yet
ProbeResolved ==
  /\ Len(stack) = 1
  /\ Top.className = "Probe"
  /\ Top.i = 1
  /\ Top.pc = "decorators"
  /\ Top.d = 1

\* the document of field p of the outermost activation
ProbeSchema == Value(heap, Property(heap, stack[1].schema, "p"))

\* C6: a field declared Buffer, Uint8Array, UploadFile or ImageFile (a name
\* with the File suffix) resolves to exactly {type: string, format: binary}.
C6_BinaryFamily ==
  (ProbeResolved /\ ProbeType \in { Type(b, 0) : b \in {"Buffer", "Uint8Array", "UploadFile", "ImageFile"} })
    => ProbeSchema = OfTypeFormat("string", "binary")

\* C7: a field declared string resolves to exactly {type: string}, number
\* to {type: number}, boolean to {type: boolean} and Date to {type: string,
\* format: date-time}.
C7_Primitives ==
  ProbeResolved =>
    /\ ProbeType = Type("string", 0) => ProbeSchema = OfType("string")
    /\ ProbeType = Type("number", 0) => ProbeSchema = OfType("number")
    /\ ProbeType = Type("boolean", 0) => ProbeSchema = OfType("boolean")
    /\ ProbeType = Type("Date", 0) => ProbeSchema = OfTypeFormat("string", "date-time")

---------------------------------------------------------------------------
(* Annotations *)

\* applyDecorators is about to handle an annotation
DecoratorPending ==
  /\ stack # << >>
  /\ Top.pc = "decorators"
  /\ Top.d <= Len(Top.properties[Top.i].decorators)
PendingDecorator == Top.properties[Top.i].decorators[Top.d]
PendingProperty == Property(heap, Top.schema, Top.properties[Top.i].name)

Keys == DOMAIN EmptyObject

\* the heap after the step differs from the heap before it in the listed
\* attributes of one object, which get the listed values, and in nothing else
OnlyWritten(object, written) ==
  /\ Len(heap') = Len(heap)
  /\ \A o \in DOMAIN heap : \A key \in Keys :
       heap'[o][key] = IF o = object /\ key \in DOMAIN written THEN written[key]
                       ELSE heap[o][key]

\* the mapping table: type and format of the type-bearing annotations
TypeBearing ==
  [isString |-> [type |-> Str("string")],
   isInt |-> [type |-> Str("integer"), format |-> Str("int32")],
   isNumber |-> [type |-> Str("number")],
   isBoolean |-> [type |-> Str("boolean")],
   isDate |-> [type |-> Str("string"), format |-> Str("date-time")],
   isEmail |-> [format |-> Str("email")]]

\* C8: on a field whose resolved type is no array, a type-bearing annotation
\* that is the field's only annotation writes what the mapping table says and
\* nothing else: is-string type string; is-integer type integer and format
\* int32; is-number type number; is-boolean type boolean; is-date type string
\* and format date-time; is-email format email, the type staying as it was.
C8_TypeBearingAlone ==
  [][ ( /\ DecoratorPending
        /\ ~Top.isArrayType
        /\ Len(Top.properties[Top.i].decorators) = 1
        /\ PendingDecorator.name \in DOMAIN TypeBearing ) =>
      OnlyWritten(PendingProperty, TypeBearing[PendingDecorator.name]) ]_vars

\* the mapping table: the attribute a constraint annotation writes and its value
Constraint(decorator) ==
  LET n == At(decorator.arguments, 1) IN
  [minLength |-> [minLength |-> n],
   maxLength |-> [maxLength |-> n],
   min |-> [minimum |-> n],
   max |-> [maximum |-> n],
   isPositive |-> [minimum |-> Num(0)],
   arrayMinSize |-> [minItems |-> n],
   arrayMaxSize |-> [maxItems |-> n],
   isArray |-> [type |-> Str("array")]]
ConstraintKinds == DOMAIN Constraint([name |-> "", arguments |-> << >>])

WrittenAttributes(decorator) ==
  LET name == decorator.name IN
  IF name \in ConstraintKinds THEN DOMAIN Constraint(decorator)[name]
  ELSE IF name \in DOMAIN TypeBearing THEN {"items.type", "items.format", "type", "format"}
  ELSE IF name = "length" THEN {"minLength", "maxLength"}
  ELSE IF name = "arrayNotEmpty" THEN {"minItems"}
  ELSE {}

\* the annotations of field p as applyDecorators gets them
ProbeDecorators == extractDecorators(Probe.members[1].modifiers)

\* the annotations of field p write attributes different from each other
WriteDifferentAttributes ==
  \A j, k \in DOMAIN ProbeDecorators :
    j # k => WrittenAttributes(ProbeDecorators[j]) \cap WrittenAttributes(ProbeDecorators[k]) = {}

---------------------------------------------------------------------------
(* The required list *)

\* how many times a name is in a list
Count(elems, x) == Cardinality({ k \in DOMAIN elems : elems[k] = x })

\* the annotation kinds of field p
ProbeKinds == { ProbeDecorators[k].name : k \in DOMAIN ProbeDecorators }

---------------------------------------------------------------------------
(* Arrays *)

\* applyDecorators is about to handle an annotation of a field whose
\* resolved type is array and whose property schema has items
ArrayDecoratorPending ==
  /\ DecoratorPending
  /\ Top.isArrayType
  /\ heap[PendingProperty].items.t = "ref"
PendingItems == heap[PendingProperty].items.v

\* what a type-bearing annotation writes on items: the table's values, for
\* is-date a type and a format whatever they are
ItemsWritten(name) ==
  IF name = "isDate"
  THEN [type |-> heap'[PendingItems].type, format |-> heap'[PendingItems].format]
  ELSE TypeBearing[name]

\* an array whose items are the given document
ArrayOf(items) ==
  [EmptyObject EXCEPT !.type = Str("array"), !.items = [t |-> "schema", v |-> items],
                      !.properties = Map(<< >>), !.required = Arr(<< >>)]

NoTypeBearing == ProbeKinds \cap DOMAIN TypeBearing = {}

\* C14: an array field without element-type information (any[]) and
\* without a type-bearing annotation has the item schema {type: string}.
C14_DefaultItems ==
  (Returned("Probe") /\ ProbeType = Type("any", 1) /\ NoTypeBearing) =>
    Value(heap, Property(heap, last.result.schema, "p")).items
      = [t |-> "schema", v |-> OfType("string")]

\* the document of field p in the result of the last call
ResultP == Value(heap, Property(heap, last.result.schema, "p"))

\* {type: array, items} and no key more
ArrayOnly(items) ==
  [EmptyObject EXCEPT !.type = Str("array"), !.items = [t |-> "schema", v |-> items]]

\* C15: a field declared string[] or Buffer[] without annotations compiles
\* to exactly {type: array, items: <element schema>}, items being {type:
\* string} and {type: string, format: binary}; it has no properties key and
\* no required key.
C15_PrimitiveArray ==
  (Returned("Probe") /\ ProbeDecorators = << >>) =>
    /\ ProbeType = Type("string", 1) => ResultP = ArrayOnly(OfType("string"))
    /\ ProbeType = Type("Buffer", 1) => ResultP = ArrayOnly(OfTypeFormat("string", "binary"))

---------------------------------------------------------------------------
(* Nested classes *)

\* transform(Role).schema
RoleSchema ==
  [EmptyObject EXCEPT
     !.type = Str("object"),
     !.properties = Map(<<
        [key |-> "id", value |-> OfTypeFormat("integer", "int32")],
        [key |-> "name", value |-> [OfType("string") EXCEPT !.maxLength = Num(65)]] >>),
     !.required = Arr(<<"id">>)]

\* no annotation of field p writes an attribute of the property schema
NoAttributeWritten ==
  \A k \in DOMAIN ProbeDecorators : WrittenAttributes(ProbeDecorators[k]) = {}

---------------------------------------------------------------------------
(* Annotations the mapping table does not have *)

\* the annotation kinds of the mapping table
KnownKinds ==
  DOMAIN TypeBearing \cup ConstraintKinds \cup {"isNotEmpty", "length", "arrayNotEmpty"}

---------------------------------------------------------------------------
(* length *)

---------------------------------------------------------------------------
(* Shape of the property schemas *)

C20_ObjectHasProperties ==
  Returned("Probe") =>
    \A o \in DOMAIN heap :
      heap[o].type = Str("object") =>
        heap[o].properties.t = "map" /\ heap[o].required.t = "array"

\* the type names of the model that transformByName cannot resolve
Unresolvable == {"Missing", "ImageFile", "any"}

\* C20, amended: every schema object whose type is "object" has both a
\* properties map and a required list or has neither; the schema of a
\* declared class (Role, Probe itself) has both; the property schema of a
\* field whose declared type, or element type, names a class that cannot be
\* resolved has type object and neither.
C20_ObjectHasBothOrNeither ==
  /\ \A o \in DOMAIN heap :
       heap[o].type = Str("object") =>
         (heap[o].properties.t = "map") = (heap[o].required.t = "array")
  /\ Returned("Probe") =>
       /\ heap[last.result.schema].properties.t = "map"
       /\ heap[last.result.schema].required.t = "array"
       /\ (ProbeType = Type("Role", 0) /\ NoTypeBearing /\ "isArray" \notin ProbeKinds) =>
            ResultP.type = Str("object") /\ ResultP.properties.t = "map"
              /\ ResultP.required.t = "array"
       /\ (ProbeType.base \in Unresolvable /\ ProbeType.dims = 0 /\ NoTypeBearing
             /\ "isArray" \notin ProbeKinds) =>
            ResultP.type = Str("object") /\ ResultP.properties = Undefined
              /\ ResultP.required = Undefined
       /\ (ProbeType.base \in Unresolvable /\ ProbeType.dims = 1 /\ NoTypeBearing) =>
            ResultP.items.v.type = Str("object") /\ ResultP.items.v.properties = Undefined
              /\ ResultP.items.v.required = Undefined

C20_Witness ==
  /\ Returned("Probe")
  /\ ProbeType = Type("Missing", 0)
  /\ ProbeDecorators = <<[name |-> "min", arguments |-> <<Num(2)>>]>>
  /\ ResultP = [OfType("object") EXCEPT !.minimum = Num(2)]

---------------------------------------------------------------------------
(* The keys of properties *)

IsField(member) == member.isProperty

\* the names of the fields of a class in declaration order
FieldNames(declaration) ==
  LET fields == SelectSeq(declaration.members, IsField)
  IN  [k \in DOMAIN fields |-> fields[k].name]

\* the keys of the properties of a schema object in insertion order
PropertyKeys(schema) ==
  [k \in DOMAIN heap[schema].properties.v |-> heap[schema].properties.v[k].key]

\* C21: the schema transform returns has type object, and the keys of its
\* properties are the names of the fields of the class, one key for each
\* field, a field without annotations included, in declaration order.
C21_OneKeyPerField ==
  last.outcome = "returned" =>
    /\ heap[last.result.schema].type = Str("object")
    /\ PropertyKeys(last.result.schema) = FieldNames(Declaration(last.name))

C21_Witness ==
  /\ Returned("Draft")
  /\ Len(Declaration("Draft").members) = 4
  /\ PropertyKeys(last.result.schema) = <<"attachment", "title", "owner">>

---------------------------------------------------------------------------
(* Classes in progress *)

\* the classes whose transformClass is running
InProgress == { stack[k].className : k \in DOMAIN stack }

\* C22: while transformClass of M runs the cache has an entry for M, no
\* class is in progress twice, and the field next of Node, whose type is the
\* class in progress, gets exactly {type: object}.
C22_InProgressMarker ==
  /\ \A M \in InProgress : classCache[M].cached
  /\ \A j, k \in DOMAIN stack : j # k => stack[j].className # stack[k].className
  /\ (Returned("Node") /\ Len(calls) = 1) =>
       Value(heap, Property(heap, last.result.schema, "next")) = OfType("object")

\* C23: over any sequence of transform calls, transformClass runs at most
\* once for each class, so the cache gets at most one entry for each name.
C23_CompiledAtMostOnce ==
  \A M \in ClassNames : activations[M] <= 1

---------------------------------------------------------------------------
(* Cached schemas *)

\* C24: a step leaves the document of every cached schema as it was: once
\* a class is in the cache, compiling a class that has an annotated field of
\* its type, or of an array of it, does not change its schema.
C24_CacheImmutable ==
  [][ \A M \in ClassNames :
        classCache[M].cached =>
          /\ classCache'[M].cached
          /\ Value(heap', classCache'[M].schema) = Value(heap, classCache[M].schema) ]_vars

---------------------------------------------------------------------------
(* Order of the annotations *)

\* what an annotation writes on the property schema of a field that is no
\* array, by the mapping table (is-date and length are left to C8 and C18)
Writes(decorator) ==
  LET name == decorator.name IN
  IF name \in DOMAIN TypeBearing THEN TypeBearing[name]
  ELSE IF name \in ConstraintKinds THEN Constraint(decorator)[name]
  ELSE IF name = "arrayNotEmpty" THEN [minItems |-> Num(1)]
  ELSE << >>

\* a document after the annotations from the k-th on have written, in order
RECURSIVE Folded(_, _, _)
Folded(doc, decorators, k) ==
  IF k > Len(decorators) THEN doc
  ELSE LET w == Writes(decorators[k])
       IN  Folded([key \in DOMAIN doc |-> IF key \in DOMAIN w THEN w[key] ELSE doc[key]],
                  decorators, k + 1)

\* the annotations of the f-th field of the class under test
FieldDecorators(f) == extractDecorators(Probe.members[f].modifiers)
FieldSchema(f) == Value(heap, Property(heap, last.result.schema, Probe.members[f].name))

\* the fields last-writer-wins is stated for: declared string, number or
\* boolean, without is-date and length
Foldable(f) ==
  /\ ProbeType \in {Type("string", 0), Type("number", 0), Type("boolean", 0)}
  /\ \A k \in DOMAIN FieldDecorators(f) : FieldDecorators(f)[k].name \notin {"isDate", "length"}

\* the type-bearing annotations of the f-th field, in order
IsTypeBearing(decorator) == decorator.name \in DOMAIN TypeBearing
TypeBearers(f) == SelectSeq(FieldDecorators(f), IsTypeBearing)

---------------------------------------------------------------------------
(* Termination on acyclic class graphs *)

\* the declared classes the fields of a class name, as element type or not
References(className) ==
  LET found == findClassByName(program, className) IN
  IF found = {} THEN {}
  ELSE LET members == program[CHOOSE i \in found : TRUE].members
       IN  { members[k].type.base :
               k \in { j \in DOMAIN members :
                         /\ members[j].isProperty
                         /\ ~IsPrimitive(members[j].type.base)
                         /\ findClassByName(program, members[j].type.base) # {} } }

RECURSIVE Closure(_, _)
Closure(names, n) ==
  IF n = 0 THEN names
  ELSE Closure(names \cup UNION { References(name) : name \in names }, n - 1)

\* the declared classes reachable from a declared class, itself included
Reachable(className) == Closure({className}, Len(program))

\* no class reachable from it is reachable from its own references
Acyclic(className) ==
  /\ findClassByName(program, className) # {}
  /\ \A name \in Reachable(className) :
       name \notin UNION { Reachable(other) : other \in References(name) }

Running(className) == stack # << >> /\ stack[1].className = className
RunningAcyclic == stack # << >> /\ Acyclic(stack[1].className)

\* C26: a transform of a class whose reference graph has no cycle ends, and
\* while it runs the nesting of transformClass calls is never deeper than
\* the number of classes reachable from it.
C26_AcyclicTerminates ==
  /\ [](RunningAcyclic => Len(stack) <= Cardinality(Reachable(stack[1].className)))
  /\ RunningAcyclic ~> (stack = << >> /\ last.outcome = "returned")

C26_Witness ==
  /\ Acyclic("Draft")
  /\ Reachable("Draft") = {"Draft", "Role"}
  /\ Running("Draft")
  /\ Len(stack) = 2
  /\ ~Acyclic("Node")
  /\ ~Acyclic("A")

---------------------------------------------------------------------------
(* Numeric arguments *)

NumericAttributes == {"minimum", "maximum", "minLength", "maxLength", "minItems", "maxItems"}

\* C27: whatever integer literal a numeric constraint annotation is given,
\* negative and zero included, the attribute it writes holds a number, never
\* a string.
C27_NumericAttributes ==
  Returned("Probe") =>
    \A f \in {1, 2} : \A a \in NumericAttributes :
      FieldSchema(f)[a].t \in {"undefined", "number"}

---------------------------------------------------------------------------
(* Fields of one class *)

\* the property schema of the j-th field of the class being compiled
CompiledField(h, j) == Value(h, Property(h, Top.schema, Top.properties[j].name))

\* C28: while generateSchema works on one field of a class, the property
\* schemas of the fields it has already compiled stay as they are, also
\* when two fields name the same nested class and one of them is annotated.
C28_OtherFieldsUnchanged ==
  [][ (stack # << >> /\ Len(stack') = Len(stack)) =>
        \A j \in DOMAIN Top.properties :
          j < Top.i => CompiledField(heap', j) = CompiledField(heap, j) ]_vars

---------------------------------------------------------------------------
(* Failed calls *)

Declared(className) == findClassByName(program, className) # {}

\* C29: a transform call that throws because the class is declared nowhere
\* leaves the cache and every schema as they were, the name is never cached,
\* and whenever the latest call is of such a name, first or repeated, it
\* has thrown.
C29_FailedCallLeavesCache ==
  /\ [][ (calls' # calls /\ last'.outcome = "threw") =>
           (classCache' = classCache /\ heap' = heap) ]_vars
  /\ [](\A k \in DOMAIN calls :
          ~Declared(calls[k]) =>
            /\ ~classCache[calls[k]].cached
            /\ k = Len(calls) => (last.name = calls[k] /\ last.outcome = "threw"))

C29_Witness ==
  /\ calls = <<"Role", "Missing", "Missing">>
  /\ last.outcome = "threw"
  /\ classCache["Role"].cached
  /\ ~classCache["Missing"].cached

---------------------------------------------------------------------------
(* Contents of the cache *)

====
